---------------------------- MODULE Spec2Model ----------------------------
(***************************************************************************)
(* The drawing editor's operation log (the useDraw hook), its projector    *)
(* (applyOpsToElements), and the push / poll cycle of HomePage against the *)
(* document store (DrawingEntity).                                         *)
(*                                                                         *)
(* React is modelled as it works: a hook callback reads the values its     *)
(* closure captured at the render that created it (`rendered`) and queues  *)
(* updates on the committed state (drawing, opHistory, historyIndex); a    *)
(* functional update (prev => ...) reads the committed state.  A render    *)
(* copies the committed state into `rendered`.  An async handler keeps the *)
(* closure of the render it was started from across its await.             *)
(***************************************************************************)
EXTENDS Integers, Sequences, FiniteSets, TLC

VARIABLES
  drawing,           \* useState<Drawing>: [ops, opVersion]
  opHistory,         \* useState<Op[]>
  historyIndex,      \* useState<number>
  selectedIds,       \* useState<string[]>
  currentDrawingId,  \* HomePage useState<string | null>
  rendered,          \* what the callbacks of the latest render closed over
  server,            \* DrawingEntity state of the one document
  save,              \* the handleSave call in flight, or NoCall
  poll,              \* the poll call in flight, or NoCall
  nextId,            \* source of fresh op ids / timestamps (uuidv4, Date.now)
  batch,             \* hook calls made since the latest render
  unacked,           \* history: ids dispatched locally, not yet acknowledged
  hist,              \* history: the last hook calls and the lists around them
  canvas,            \* ExcalidrawCanvas: its state, its refs and its props
  entity,            \* the store's handle on the document: the version its
                     \* writes are compared against, the appendOps calls in flight
  timer              \* the timeouts of useDebounce that are pending

vars == <<drawing, opHistory, historyIndex, selectedIds, currentDrawingId, rendered,
          server, save, poll, nextId, batch, unacked, hist, canvas, entity, timer>>

-----------------------------------------------------------------------------
(* Bounds of the model *)

MaxOps == 2
MaxBatch == 2
MaxUndoDepth == 2
MaxProjOps == 3
MaxCanvasOps == 1
MaxDragOps == 2
MaxPresence == 2
MaxPathLen == 5

(* Program constants *)

UNDO_LIMIT == 100
GridSize == 20
ShortPath == 3
MaxAttempts == 3
BackoffBase == 100
GuideThreshold == 5

None == "none"
NoCall == [phase |-> "none"]
NoDoc == "null"
DocId == "d1"

Min(a, b) == IF a < b THEN a ELSE b
Max(a, b) == IF a > b THEN a ELSE b

-----------------------------------------------------------------------------
(* JavaScript array helpers *)

\* Array.prototype.slice(start, end): negative indices count from the end,
\* both are clamped to [0, length].
SliceIndex(len, i) == IF i < 0 THEN Max(len + i, 0) ELSE Min(i, len)

Slice(arr, start, end) ==
  LET s == SliceIndex(Len(arr), start)
      e == SliceIndex(Len(arr), end)
  IN  IF e <= s THEN <<>> ELSE SubSeq(arr, s + 1, e)

\* arr.slice(start)
SliceFrom(arr, start) == Slice(arr, start, Len(arr))

\* Array.prototype.shift on a copy: the array without its first entry
Shift(arr) == IF Len(arr) = 0 THEN arr ELSE SubSeq(arr, 2, Len(arr))

\* Array.prototype.findIndex(e => e.id === id), 1-based; 0 when absent
FindIndex(draft, id) ==
  LET hits == {i \in 1..Len(draft) : "id" \in DOMAIN draft[i] /\ draft[i].id = id}
  IN  IF hits = {} THEN 0 ELSE CHOOSE i \in hits : \A j \in hits : i <= j

\* Array.prototype.splice(idx, 1) with a 1-based idx
Splice1(draft, idx) ==
  [i \in 1..(Len(draft) - 1) |-> IF i < idx THEN draft[i] ELSE draft[i + 1]]

\* Object.assign(target, source): a shallow merge, source wins
ObjectAssign(target, source) ==
  [f \in (DOMAIN target) \cup (DOMAIN source) |->
     IF f \in DOMAIN source THEN source[f] ELSE target[f]]

-----------------------------------------------------------------------------
(* Operations and their payloads *)

\* op.data is undefined, an object (an element or a partial element) or an
\* array of elements
NoData == [kind |-> "undefined"]
ObjData(o) == [kind |-> "object", val |-> o]
ArrData(a) == [kind |-> "array", val |-> a]

\* generateOp(type, elementId, data): id from uuidv4, ts from Date.now
generateOp(type, elementId, data, n) ==
  [id |-> n, type |-> type, elementId |-> elementId, data |-> data, ts |-> n]

\* the element createElement builds for the rectangle tool
NewElement(n) ==
  [id |-> ToString(n), type |-> "rectangle", x |-> 0, y |-> 0, fillColor |-> "transparent"]

\* the partial payloads the drag / resize handlers send
PartialData == {[x |-> 1]}

OpIds(ops) == {ops[i].id : i \in 1..Len(ops)}

-----------------------------------------------------------------------------
(* Document Projector: lib/drawing applyOpsToElements *)

\* e.id, None when the object has no such property
IdOf(el) == IF "id" \in DOMAIN el THEN el.id ELSE None

\* el.type, None when the object has no such property
TypeOf(el) == IF "type" \in DOMAIN el THEN el.type ELSE None

\* case 'add': anything that is not an array is pushed
\* a variant that puts the new element first
ApplyAddFirst(draft, op) ==
  IF op.data.kind = "object" THEN <<op.data.val>> \o draft ELSE draft

ApplyAdd(draft, op) ==
  IF op.data.kind = "object" THEN Append(draft, op.data.val) ELSE draft

\* case 'update': Object.assign into the element found, isEditing removed
\* from what is not a text element
\* a variant whose merge lets the element's own fields win
ApplyUpdateKeepOld(draft, op) ==
  IF op.elementId # None /\ op.data.kind = "object"
  THEN LET idx == FindIndex(draft, op.elementId)
       IN  IF idx = 0 THEN draft
           ELSE [draft EXCEPT ![idx] = ObjectAssign(op.data.val, draft[idx])]
  ELSE draft

ApplyUpdate(draft, op) ==
  IF op.elementId # None /\ op.data.kind = "object"
  THEN LET idx == FindIndex(draft, op.elementId)
       IN  IF idx = 0 THEN draft
           ELSE LET merged == ObjectAssign(draft[idx], op.data.val)
                    fixed ==
                      IF TypeOf(merged) # "text" /\ "isEditing" \in DOMAIN merged
                      THEN [f \in (DOMAIN merged) \ {"isEditing"} |-> merged[f]]
                      ELSE merged
                IN  [draft EXCEPT ![idx] = fixed]
  ELSE draft

\* case 'delete': splice the element found
\* a variant without the `delIdx !== -1` test: splice(-1, 1) takes the last
\* element away
ApplyDeleteUnguarded(draft, op) ==
  IF op.elementId # None
  THEN LET delIdx == FindIndex(draft, op.elementId)
       IN  IF delIdx = 0 THEN SubSeq(draft, 1, Len(draft) - 1) ELSE Splice1(draft, delIdx)
  ELSE draft

ApplyDelete(draft, op) ==
  IF op.elementId # None
  THEN LET delIdx == FindIndex(draft, op.elementId)
       IN  IF delIdx = 0 THEN draft ELSE Splice1(draft, delIdx)
  ELSE draft

\* one iteration of ops.forEach in the produce recipe
ApplyOp(draft, op) ==
  CASE op.type = "add" -> ApplyAdd(draft, op)
    [] op.type = "update" -> ApplyUpdate(draft, op)
    [] op.type = "delete" -> ApplyDelete(draft, op)
    \* `return op.data` returns from the forEach callback only: the recipe
    \* goes on with the draft untouched
    [] op.type = "reorder" -> draft
    [] OTHER -> draft

\* ops.forEach over ops[lo..hi], left to right.  The range is split in halves
\* and the left half is computed (its length taken) before the right one
\* starts, which keeps the evaluation shallow for a log at the cap.
RECURSIVE ApplyRange(_, _, _, _)
ApplyRange(ops, lo, hi, draft) ==
  IF lo > hi THEN draft
  ELSE IF lo = hi THEN ApplyOp(draft, ops[lo])
  ELSE LET mid == (lo + hi) \div 2
           left == ApplyRange(ops, lo, mid, draft)
       IN  IF Len(left) >= 0 THEN ApplyRange(ops, mid + 1, hi, left) ELSE left

applyOpsToElements(ops, initialElements) == ApplyRange(ops, 1, Len(ops), initialElements)


-----------------------------------------------------------------------------
(* The useDraw hook.  `r` is the closure of the render the callback came   *)
(* from, `s` the committed state the queued updates are applied to.        *)

HookState ==
  [drawing |-> drawing, opHistory |-> opHistory, historyIndex |-> historyIndex,
   selectedIds |-> selectedIds]

\* a variant that replays the whole log, the undone entries included
currentElementsWholeLog(history, index) == applyOpsToElements(history, <<>>)

\* useMemo(() => applyOpsToElements(opHistory.slice(0, historyIndex)))
currentElements(history, index) == applyOpsToElements(Slice(history, 0, index), <<>>)

\* what a render of state `s` hands to the callbacks it creates
RenderOf(s, id) ==
  [drawing |-> s.drawing, opHistory |-> s.opHistory, historyIndex |-> s.historyIndex,
   selectedIds |-> s.selectedIds,
   currentDrawingId |-> id, elements |-> currentElements(s.opHistory, s.historyIndex)]

setDrawingAndOps(s, newDrawing) ==
  [s EXCEPT !.drawing = newDrawing,
            !.opHistory = newDrawing.ops,
            !.historyIndex = Len(newDrawing.ops),
            !.selectedIds = <<>>]

\* a variant that appends without cutting the undone entries off first
dispatchOpNoTruncate(r, s, op) ==
  LET newHistory == Append(r.opHistory, op)
      kept == IF Len(newHistory) > UNDO_LIMIT THEN Shift(newHistory) ELSE newHistory
  IN  [s EXCEPT !.opHistory = kept, !.historyIndex = Len(kept)]

dispatchOp(r, s, op) ==
  LET newHistory == Append(Slice(r.opHistory, 0, r.historyIndex), op)
      kept == IF Len(newHistory) > UNDO_LIMIT THEN Shift(newHistory) ELSE newHistory
  IN  [s EXCEPT !.opHistory = kept, !.historyIndex = Len(kept)]

undo(r, s) ==
  IF r.historyIndex > 0 THEN [s EXCEPT !.historyIndex = @ - 1] ELSE s

redo(r, s) ==
  IF r.historyIndex < Len(r.opHistory) THEN [s EXCEPT !.historyIndex = @ + 1] ELSE s

mergeRemoteOps(r, s, ops) ==
  IF Len(ops) = 0 THEN s
  ELSE LET newHistory == r.opHistory \o ops
       IN  [s EXCEPT !.opHistory = newHistory, !.historyIndex = Len(newHistory)]

pendingOps(r) == SliceFrom(r.opHistory, r.drawing.opVersion)

-----------------------------------------------------------------------------
(* The store's projector: worker applyOpsToElements.  The Map keyed by     *)
(* element id is a sequence in insertion order: set() of a key already     *)
(* there keeps its place.                                                  *)

MapHas(m, id) == FindIndex(m, id) # 0

MapSet(m, id, el) ==
  IF MapHas(m, id) THEN [m EXCEPT ![FindIndex(m, id)] = el] ELSE Append(m, el)

\* new Map(initialElements.map(el => [el.id, el]))
RECURSIVE MapOf(_)
MapOf(els) ==
  IF Len(els) = 0 THEN <<>>
  ELSE LET last == els[Len(els)]
       IN  MapSet(MapOf(SubSeq(els, 1, Len(els) - 1)), last.id, last)

\* the discriminated-union guards of the `add` case
WorkerAccepts(data) ==
  /\ data.kind = "object"
  /\ "type" \in DOMAIN data.val
  /\ "id" \in DOMAIN data.val
  /\ CASE data.val.type \in {"stroke", "line", "arrow"} -> "points" \in DOMAIN data.val
       [] data.val.type \in {"rectangle", "ellipse"} -> "fillColor" \in DOMAIN data.val
       [] data.val.type = "text" -> "text" \in DOMAIN data.val
       [] OTHER -> FALSE

\* what the spread of op.data copies: an array spreads its indices
Spread(data) ==
  IF data.kind = "object" THEN data.val
  ELSE [k \in {ToString(i - 1) : i \in 1..Len(data.val)} |->
          data.val[CHOOSE i \in 1..Len(data.val) : ToString(i - 1) = k]]

WorkerApplyOp(m, op) ==
  CASE op.type = "add" ->
         IF WorkerAccepts(op.data) THEN MapSet(m, op.data.val.id, op.data.val) ELSE m
    [] op.type = "update" ->
         IF op.elementId # None /\ op.data.kind # "undefined" /\ MapHas(m, op.elementId)
         THEN MapSet(m, op.elementId,
                     ObjectAssign(m[FindIndex(m, op.elementId)], Spread(op.data)))
         ELSE m
    [] op.type = "delete" ->
         IF op.elementId # None /\ MapHas(m, op.elementId)
         THEN Splice1(m, FindIndex(m, op.elementId))
         ELSE m
    [] OTHER -> m

RECURSIVE WorkerApplyRange(_, _, _, _)
WorkerApplyRange(ops, lo, hi, m) ==
  IF lo > hi THEN m
  ELSE IF lo = hi THEN WorkerApplyOp(m, ops[lo])
  ELSE LET mid == (lo + hi) \div 2
           left == WorkerApplyRange(ops, lo, mid, m)
       IN  IF Len(left) >= 0 THEN WorkerApplyRange(ops, mid + 1, hi, left) ELSE left

workerApplyOpsToElements(ops, initialElements) ==
  WorkerApplyRange(ops, 1, Len(ops), MapOf(initialElements))

-----------------------------------------------------------------------------
(* The document store: worker DrawingEntity *)

\* ops.sort((a, b) => a.ts - b.ts): a stable sort by timestamp
RECURSIVE SortByTs(_)
SortByTs(ops) ==
  IF Len(ops) <= 1 THEN ops
  ELSE LET rest == SortByTs(SubSeq(ops, 1, Len(ops) - 1))
           last == ops[Len(ops)]
           before == {i \in 1..Len(rest) : rest[i].ts <= last.ts}
           k == IF before = {} THEN 0 ELSE CHOOSE i \in before : \A j \in before : j <= i
       IN  SubSeq(rest, 1, k) \o <<last>> \o SubSeq(rest, k + 1, Len(rest))

\* a variant that forgets the stored log
appendOpsReplace(st, ops) ==
  IF Len(ops) = 0 THEN st
  ELSE LET sortedOps == SortByTs(ops)
       IN  [st EXCEPT !.elements = workerApplyOpsToElements(sortedOps, @),
                      !.ops = sortedOps,
                      !.opVersion = @ + Len(sortedOps)]

appendOps(st, ops) ==
  IF Len(ops) = 0 THEN st
  ELSE LET sortedOps == SortByTs(ops)
       IN  [st EXCEPT !.elements = workerApplyOpsToElements(sortedOps, @),
                      !.ops = @ \o sortedOps,
                      !.opVersion = @ + Len(sortedOps)]

getOpsSince(st, version) == SliceFrom(st.ops, version)

\* the callers of appendOps: two requests the worker serves at once
Callers == {"A", "B"}

NoSeen == [version |-> -1, state |-> [elements |-> <<>>, ops |-> <<>>, opVersion |-> 0]]

\* an appendOps call: where it stands, its batch, the attempt of its loop,
\* what mutate read, the error mutate threw and the backoff it waits for
NoAppend ==
  [pc |-> "idle", ops |-> <<>>, attempt |-> 0, seen |-> NoSeen, err |-> None, delay |-> 0]

InitEntity == [version |-> 0, presence |-> 0, calls |-> [c \in Callers |-> NoAppend]]

-----------------------------------------------------------------------------
(* HomePage: the async handlers, split at their await *)

\* a variant whose catch puts the drawing of the call's closure back
handleSaveSettledRollback(s, call, ok) ==
  IF ok
  THEN setDrawingAndOps(s, [call.drawing EXCEPT !.opVersion = @ + Len(call.ops)])
  ELSE setDrawingAndOps(s, call.drawing)

\* handleSave after `await api(...)`: the try branch, or the catch
handleSaveSettled(s, call, ok) ==
  IF ok
  THEN setDrawingAndOps(s, [call.drawing EXCEPT !.opVersion = @ + Len(call.ops)])
  ELSE s

\* poll after `await Promise.all(...)`: the try branch, or the catch
pollSettled(s, call, ok) ==
  IF ok /\ Len(call.remoteOps) > 0
  THEN setDrawingAndOps(mergeRemoteOps(call, s, call.remoteOps),
                        [call.drawing EXCEPT !.opVersion = @ + Len(call.remoteOps)])
  ELSE s

-----------------------------------------------------------------------------
(* ExcalidrawCanvas: the interaction state and the refs of the component,  *)
(* with the props HomePage hands it (tool, enableSnapping).  Points are    *)
(* SVG points, the viewport at its origin.                                 *)

Pt(x, y) == [x |-> x, y |-> y]

\* a press on the empty canvas: no data-handle, no data-element-id
NoTarget == [handle |-> None, elementId |-> None]

Idle == [type |-> "none"]

\* useState<Action>({ type: 'none' }), the refs, activeTool 'pen',
\* enableSnapping true
InitCanvas ==
  [action |-> Idle, start |-> Pt(0, 0), last |-> Pt(0, 0), points |-> <<>>,
   preview |-> FALSE, captured |-> FALSE, tool |-> "pen", enableSnapping |-> TRUE]

Abs(a) == IF a < 0 THEN -a ELSE a

\* Math.round(a / b) for b > 0: a half goes up
RoundDiv(a, b) == (2 * a + b) \div (2 * b)

\* a variant that rounds down
snapToGridDown(p, gridSize) ==
  Pt((p.x \div gridSize) * gridSize, (p.y \div gridSize) * gridSize)

snapToGrid(p, gridSize) ==
  Pt(RoundDiv(p.x, gridSize) * gridSize, RoundDiv(p.y, gridSize) * gridSize)

\* the tools of the toolbar that are modelled; ellipse, line and arrow go
\* the way of rectangle
Tools == {"select", "hand", "eraser", "pen", "rectangle"}

\* the handles drawn around the one selected element that are modelled
Handles == {"rotate", "bottom-right", "top-left"}

\* handle.includes(part)
Includes(handle, part) ==
  CASE part = "right" -> handle \in {"right", "top-right", "bottom-right"}
    [] part = "left" -> handle \in {"left", "top-left", "bottom-left"}
    [] part = "top" -> handle \in {"top", "top-left", "top-right"}
    [] part = "bottom" -> handle \in {"bottom", "bottom-left", "bottom-right"}
    [] OTHER -> FALSE

\* useDraw.createElement: the operations it dispatches
createElement(tool, start, end, n) ==
  LET base == [id |-> ToString(n),
               x |-> Min(start.x, end.x), y |-> Min(start.y, end.y),
               width |-> Abs(start.x - end.x), height |-> Abs(start.y - end.y),
               angle |-> <<>>]
  IN  CASE tool = "rectangle" ->
             <<generateOp("add", None,
                 ObjData(ObjectAssign(base, [type |-> "rectangle", fillColor |-> "transparent"])), n)>>
        [] tool = "text" ->
             <<generateOp("add", None,
                 ObjData(ObjectAssign(base, [type |-> "text", text |-> "Text",
                                             width |-> Max(base.width, 100),
                                             height |-> Max(base.height, 30)])), n)>>
        [] OTHER -> <<>>

MinOf(S) == CHOOSE a \in S : \A b \in S : a <= b
MaxOf(S) == CHOOSE a \in S : \A b \in S : a >= b

\* a variant that stores the points as they were drawn
createStrokeAbsolute(points, n) ==
  IF Len(points) < 2 THEN <<>>
  ELSE LET xs == {points[i].x : i \in 1..Len(points)}
           ys == {points[i].y : i \in 1..Len(points)}
       IN  <<generateOp("add", None,
               ObjData([id |-> ToString(n), type |-> "stroke",
                        x |-> MinOf(xs), y |-> MinOf(ys),
                        width |-> MaxOf(xs) - MinOf(xs), height |-> MaxOf(ys) - MinOf(ys),
                        angle |-> <<>>,
                        points |-> points]), n)>>

\* useDraw.createStroke for a path of fewer than ShortPath points, which
\* simplifyPoints and smoothPath both return as it is
createStroke(points, n) ==
  IF Len(points) < 2 THEN <<>>
  ELSE LET xs == {points[i].x : i \in 1..Len(points)}
           ys == {points[i].y : i \in 1..Len(points)}
       IN  <<generateOp("add", None,
               ObjData([id |-> ToString(n), type |-> "stroke",
                        x |-> MinOf(xs), y |-> MinOf(ys),
                        width |-> MaxOf(xs) - MinOf(xs), height |-> MaxOf(ys) - MinOf(ys),
                        angle |-> <<>>,
                        points |-> [i \in 1..Len(points) |->
                                      Pt(points[i].x - MinOf(xs), points[i].y - MinOf(ys))]]), n)>>

\* useDraw.onSelect: setSelectedIds(prev => ...)
onSelect(s, id, multi) ==
  LET prev == s.selectedIds
      has == \E i \in 1..Len(prev) : prev[i] = id
  IN  [s EXCEPT !.selectedIds =
         IF multi
         THEN IF has THEN SelectSeq(prev, LAMBDA sid : sid # id) ELSE Append(prev, id)
         ELSE <<id>>]

onDeselectAll(s) == [s EXCEPT !.selectedIds = <<>>]

\* useDraw.onDragMove: one update per selected element of elementsRef
onDragMove(r, delta, n) ==
  LET selected(el) == \E i \in 1..Len(r.selectedIds) : r.selectedIds[i] = IdOf(el)
      elementsToUpdate == SelectSeq(r.elements, selected)
  IN  [i \in 1..Len(elementsToUpdate) |->
         generateOp("update", elementsToUpdate[i].id,
                    ObjData([x |-> elementsToUpdate[i].x + delta.x,
                             y |-> elementsToUpdate[i].y + delta.y]), n + i - 1)]

\* useDraw.onResize
onResize(r, handle, delta, elementId, n) ==
  LET idx == FindIndex(r.elements, elementId)
  IN  IF idx = 0 THEN <<>>
      ELSE LET el == r.elements[idx]
               width == el.width + (IF Includes(handle, "right") THEN delta.x ELSE 0)
                                 - (IF Includes(handle, "left") THEN delta.x ELSE 0)
               x == el.x + (IF Includes(handle, "left") THEN delta.x ELSE 0)
               height == el.height + (IF Includes(handle, "bottom") THEN delta.y ELSE 0)
                                   - (IF Includes(handle, "top") THEN delta.y ELSE 0)
               y == el.y + (IF Includes(handle, "top") THEN delta.y ELSE 0)
           IN  IF width > 10 /\ height > 10
               THEN <<generateOp("update", elementId,
                        ObjData([x |-> x, y |-> y, width |-> width, height |-> height]), n)>>
               ELSE <<>>

\* computeRotationDelta: the difference of two atan2 angles in degrees,
\* kept as the term it is computed from
computeRotationDelta(center, start, current) ==
  [center |-> center, start |-> start, current |-> current]

\* the `rotating` case of handlePointerMove with HomePage.onRotate; an
\* angle is the sequence of the deltas added to 0
onRotate(r, last, point, elementId, n) ==
  LET idx == FindIndex(r.elements, elementId)
  IN  IF idx = 0 THEN <<>>
      ELSE LET el == r.elements[idx]
               \* the sizes met here are even
               center == Pt(el.x + el.width \div 2, el.y + el.height \div 2)
           IN  <<generateOp("update", elementId,
                   ObjData([angle |-> Append(el.angle,
                              computeRotationDelta(center, last, point))]), n)>>

\* dispatchOp called for each of ops in turn by one handler: every call
\* runs in the closure r
RECURSIVE DispatchAll(_, _, _)
DispatchAll(r, s, ops) ==
  IF Len(ops) = 0 THEN s
  ELSE DispatchAll(r, dispatchOp(r, s, ops[1]), SubSeq(ops, 2, Len(ops)))

-----------------------------------------------------------------------------
(* State machine *)


initialDrawing == [ops |-> <<>>, opVersion |-> 0]

\* history of the latest calls: the call, how many log entries a dispatch
\* discarded, the element lists before and after the latest dispatch, where
\* and in which interaction state a release happened, and the deltas of the
\* latest two successive moves of the drag under way, what a press hit and
\* whether the multi-select modifier was held
NoHist == [call |-> "none", cut |-> 0, pre |-> <<>>, post |-> <<>>, at |-> Pt(0, 0),
           from |-> None, drag |-> <<>>, target |-> NoTarget, shiftKey |-> FALSE]
Called(name) == [NoHist EXCEPT !.call = name]

InitHook ==
  /\ drawing = initialDrawing
  /\ opHistory = initialDrawing.ops
  /\ historyIndex = Len(initialDrawing.ops)
  /\ selectedIds = <<>>
  /\ currentDrawingId = NoDoc
  /\ rendered = RenderOf([drawing |-> initialDrawing, opHistory |-> <<>>, historyIndex |-> 0,
                          selectedIds |-> <<>>], NoDoc)

InitClient ==
  /\ InitHook
  /\ canvas = InitCanvas
  /\ entity = InitEntity
  /\ save = NoCall
  /\ poll = NoCall
  /\ nextId = 1
  /\ batch = 0
  /\ timer = 1
  /\ unacked = {}
  /\ hist = NoHist

\* a document freshly created in the store
Init ==
  /\ InitClient
  /\ server = [elements |-> <<>>, ops |-> <<>>, opVersion |-> 0]

\* a document whose stored log is one entry short of the client's cap: one
\* element added, then moved again and again
LongLog ==
  [i \in 1..(UNDO_LIMIT - 1) |->
     IF i = 1
     THEN generateOp("add", None, ObjData(NewElement(0)), i - UNDO_LIMIT)
     ELSE generateOp("update", "0", ObjData([x |-> i]), i - UNDO_LIMIT)]

InitCap ==
  /\ InitClient
  /\ server = [elements |-> workerApplyOpsToElements(LongLog, <<>>),
               ops |-> LongLog, opVersion |-> Len(LongLog)]

Commit(s) ==
  /\ drawing' = s.drawing
  /\ opHistory' = s.opHistory
  /\ historyIndex' = s.historyIndex
  /\ selectedIds' = s.selectedIds

\* loadDrawing: GET the document, then setDrawing(loaded), setCurrentDrawingId(id)
Load ==
  /\ Commit(setDrawingAndOps(HookState, [ops |-> server.ops, opVersion |-> server.opVersion]))
  /\ currentDrawingId' = DocId
  /\ unacked' = {}
  /\ hist' = Called("load")
  /\ UNCHANGED <<canvas, server, entity, save, poll, nextId>>

\* the operations the canvas, the layers panel and the hotkeys can dispatch
\* from what the latest render shows
LocalOps ==
  LET ids == {rendered.elements[i].id : i \in 1..Len(rendered.elements)}
      els == rendered.elements
  IN  {generateOp("add", None, ObjData(NewElement(nextId)), nextId)}
      \cup {generateOp("update", e, ObjData(d), nextId) : e \in ids, d \in PartialData}
      \cup {generateOp("delete", e, NoData, nextId) : e \in ids}
      \cup IF Len(els) < 2 THEN {}
           ELSE {generateOp("reorder", None,
                            ArrData([i \in 1..Len(els) |-> els[Len(els) + 1 - i]]), nextId)}

Dispatch(op) ==
  /\ rendered.currentDrawingId # NoDoc
  /\ nextId <= MaxOps
  /\ LET s == dispatchOp(rendered, HookState, op)
         before == currentElements(opHistory, historyIndex)
         dropped == OpIds(rendered.opHistory)
                      \ OpIds(Slice(rendered.opHistory, 0, rendered.historyIndex))
     IN  /\ Commit(s)
         /\ unacked' = (unacked \ dropped) \cup {op.id}
         /\ hist' = [call |-> "dispatch", cut |-> Cardinality(dropped), pre |-> before,
                     post |-> currentElements(s.opHistory, s.historyIndex), at |-> Pt(0, 0),
                     from |-> None, drag |-> <<>>, target |-> NoTarget, shiftKey |-> FALSE]
  /\ nextId' = nextId + 1
  /\ UNCHANGED <<canvas, currentDrawingId, server, entity, save, poll>>

Undo ==
  /\ Len(rendered.opHistory) - rendered.historyIndex < MaxUndoDepth
  /\ Commit(undo(rendered, HookState))
  /\ hist' = IF hist.call = "dispatch" THEN [hist EXCEPT !.call = "undo"] ELSE NoHist
  /\ UNCHANGED <<canvas, currentDrawingId, server, entity, save, poll, nextId, unacked>>

Redo ==
  /\ Commit(redo(rendered, HookState))
  /\ hist' = IF hist.call = "undo" THEN [hist EXCEPT !.call = "redo"] ELSE NoHist
  /\ UNCHANGED <<canvas, currentDrawingId, server, entity, save, poll, nextId, unacked>>

\* handleSave(pendingOps) up to its await, from the debounce, mod+s or the toolbar
SaveStart ==
  /\ save = NoCall
  /\ rendered.currentDrawingId # NoDoc
  /\ Len(pendingOps(rendered)) # 0
  /\ save' = [phase |-> "sent", ops |-> pendingOps(rendered), drawing |-> rendered.drawing]
  /\ UNCHANGED <<canvas, drawing, opHistory, historyIndex, selectedIds, currentDrawingId, server, entity, poll,
                 nextId, unacked, hist>>

\* handleSave(ops) up to its await: nothing is sent without a document or
\* without operations
handleSave(r) ==
  IF r.currentDrawingId # NoDoc /\ Len(pendingOps(r)) # 0
  THEN [phase |-> "sent", ops |-> pendingOps(r), drawing |-> r.drawing]
  ELSE NoCall

\* the timeout of useDebounce fires: handleSave(pendingOps) of the latest
\* render is called (one push at a time is followed here)
DebounceFire ==
  /\ timer > 0
  /\ save = NoCall
  /\ timer' = timer - 1
  /\ save' = handleSave(rendered)
  /\ hist' = Called("debounce")
  /\ UNCHANGED <<canvas, drawing, opHistory, historyIndex, selectedIds, currentDrawingId, server,
                 entity, poll, nextId, unacked, rendered, batch>>

\* POST /api/drawings/:id/ops reaches the store
SaveServer ==
  /\ save.phase = "sent"
  /\ server' = appendOps(server, save.ops)
  /\ save' = [save EXCEPT !.phase = "stored"]
  /\ UNCHANGED <<canvas, entity, drawing, opHistory, historyIndex, selectedIds, currentDrawingId, poll,
                 nextId, unacked, hist>>

\* the request does not reach the store: api() throws, handleSave's catch runs
SaveFail ==
  /\ save.phase = "sent"
  /\ Commit(handleSaveSettled(HookState, save, FALSE))
  /\ save' = NoCall
  /\ hist' = Called("saveFail")
  /\ UNCHANGED <<canvas, currentDrawingId, server, entity, poll, nextId, unacked>>

SaveDone ==
  /\ save.phase = "stored"
  /\ Commit(handleSaveSettled(HookState, save, TRUE))
  /\ save' = NoCall
  /\ unacked' = unacked \ OpIds(save.ops)
  /\ hist' = Called("saveDone")
  /\ UNCHANGED <<canvas, currentDrawingId, server, entity, poll, nextId>>

\* one tick of useInterval: poll() up to its await
PollStart ==
  /\ poll = NoCall
  /\ rendered.currentDrawingId # NoDoc
  /\ poll' = [phase |-> "sent", drawing |-> rendered.drawing,
              opHistory |-> rendered.opHistory, remoteOps |-> <<>>]
  /\ UNCHANGED <<canvas, drawing, opHistory, historyIndex, selectedIds, currentDrawingId, server, entity, save,
                 nextId, unacked, hist>>

\* GET /api/drawings/:id/ops?since=v reaches the store
PollServer ==
  /\ poll.phase = "sent"
  /\ poll' = [poll EXCEPT !.phase = "received",
                          !.remoteOps = getOpsSince(server, poll.drawing.opVersion)]
  /\ UNCHANGED <<canvas, drawing, opHistory, historyIndex, selectedIds, currentDrawingId, server, entity, save,
                 nextId, unacked, hist>>

\* a request of the poll fails: Promise.all rejects, poll's catch runs
PollFail ==
  /\ poll.phase = "sent"
  /\ Commit(pollSettled(HookState, poll, FALSE))
  /\ poll' = NoCall
  /\ hist' = Called("pollFail")
  /\ UNCHANGED <<canvas, currentDrawingId, server, entity, save, nextId, unacked>>

PollDone ==
  /\ poll.phase = "received"
  /\ Commit(pollSettled(HookState, poll, TRUE))
  /\ poll' = NoCall
  /\ hist' = IF Len(poll.remoteOps) > 0 THEN Called("merge") ELSE NoHist
  /\ UNCHANGED <<canvas, currentDrawingId, server, entity, save, nextId, unacked>>

\* another client's push reaches the store
RemoteOps ==
  LET added == {server.ops[i].data.val.id :
                  i \in {j \in 1..Len(server.ops) : server.ops[j].type = "add"}}
  IN  {generateOp("add", None, ObjData(NewElement(nextId)), nextId)}
      \cup {generateOp("update", e, ObjData([x |-> 2]), nextId) : e \in added}

RemoteAppend(op) ==
  /\ nextId <= MaxOps
  /\ server' = appendOps(server, <<op>>)
  /\ nextId' = nextId + 1
  /\ UNCHANGED <<canvas, entity, drawing, opHistory, historyIndex, selectedIds, currentDrawingId, save, poll,
                 unacked, hist>>

\* useDebounce(fn, 1500, [pendingOps, handleSave]) after a render: the hook
\* returns pendingOps as a new array (opHistory.slice) at every render, so
\* the effect runs again: it clears the pending timeout and sets a new one
useDebounce(t) == (IF t > 0 THEN t - 1 ELSE t) + 1

\* React re-renders: the callbacks close over the committed state
Render ==
  /\ rendered # RenderOf(HookState, currentDrawingId)
  /\ rendered' = RenderOf(HookState, currentDrawingId)
  /\ batch' = 0
  /\ timer' = useDebounce(timer)
  /\ UNCHANGED <<canvas, drawing, opHistory, historyIndex, selectedIds, currentDrawingId, server, entity, save,
                 poll, nextId, unacked, hist>>

\* the render React runs before the next event is handled
Sync ==
  /\ rendered' = RenderOf(HookState', currentDrawingId')
  /\ batch' = 0
  /\ timer' = IF rendered' # rendered THEN useDebounce(timer) ELSE timer

\* no render yet: the next call still runs in the old closure
Stale ==
  /\ batch < MaxBatch
  /\ batch' = batch + 1
  /\ UNCHANGED <<rendered, timer>>

\* a step of the store or the network: the client does not run
Away == UNCHANGED <<rendered, batch, timer>>

\* Every event is followed by its render before the next one is handled.
Next ==
  \/ Load /\ Sync
  \/ \E op \in LocalOps : Dispatch(op) /\ Sync
  \/ Undo /\ Sync
  \/ Redo /\ Sync
  \/ SaveStart /\ Sync
  \/ SaveServer /\ Away
  \/ SaveFail /\ Sync
  \/ SaveDone /\ Sync
  \/ PollStart /\ Sync
  \/ PollServer /\ Away
  \/ PollFail /\ Sync
  \/ PollDone /\ Sync
  \/ \E op \in RemoteOps : RemoteAppend(op) /\ Away

Spec == Init /\ [][Next]_vars

\* The hook under batched calls: what its callers can do between two renders
\* (one handler calling the hook several times, updates batched across
\* events), with loads and polls completing in between.
NextBatch ==
  \/ Load /\ Stale
  \/ \E op \in LocalOps : Dispatch(op) /\ Stale
  \/ Undo /\ Stale
  \/ Redo /\ Stale
  \/ PollStart /\ Stale
  \/ PollServer /\ Away
  \/ PollDone /\ Stale
  \/ \E op \in RemoteOps : RemoteAppend(op) /\ Away
  \/ Render

SpecBatch == Init /\ [][NextBatch]_vars

\* Opening and editing a document whose stored log is at the cap, while
\* another client appends to it.
NextCap ==
  \/ Load /\ Sync
  \/ \E op \in LocalOps : Dispatch(op) /\ Sync
  \/ Undo /\ Sync
  \/ Redo /\ Sync
  \/ \E op \in RemoteOps : RemoteAppend(op) /\ Away

SpecCap == InitCap /\ [][NextCap]_vars

\* Editing with the debounced push: every event is followed by its render,
\* the timeout fires at any moment it is pending.
NextDebounce ==
  \/ Load /\ Sync
  \/ \E op \in LocalOps : Dispatch(op) /\ Sync
  \/ Undo /\ Sync
  \/ DebounceFire
  \/ SaveServer /\ Away
  \/ SaveFail /\ Sync
  \/ SaveDone /\ Sync

SpecDebounce == Init /\ [][NextDebounce]_vars

-----------------------------------------------------------------------------
(* The canvas: pointer events on the svg, tool and snapping switched from  *)
(* the toolbar.                                                            *)

\* where the pointer is pressed, and where it moves and is released
PressPoints == {Pt(10, 10)}
CanvasPoints == {Pt(10, 10), Pt(110, 60)}

\* a release: where it happened and the interaction state it found
At(name, p) == [Called(name) EXCEPT !.at = p, !.from = canvas.action.type]

\* what a press can hit: the empty canvas, an element shown, or a handle of
\* the one selected element
Targets ==
  LET ids == {IdOf(rendered.elements[i]) : i \in 1..Len(rendered.elements)} \ {None}
      single == IF Len(rendered.selectedIds) = 1 THEN {rendered.selectedIds[1]} \cap ids ELSE {}
  IN  {NoTarget}
        \cup {[handle |-> None, elementId |-> e] : e \in ids}
        \cup {[handle |-> h, elementId |-> e] : h \in Handles, e \in single}

\* the operations of one handler, dispatched one after the other
CanvasDispatch(s, ops) ==
  /\ Commit(DispatchAll(rendered, s, ops))
  /\ nextId' = nextId + Len(ops)
  /\ unacked' =
       IF Len(ops) = 0 THEN unacked
       ELSE (unacked \ (OpIds(rendered.opHistory)
                          \ OpIds(Slice(rendered.opHistory, 0, rendered.historyIndex))))
              \cup OpIds(ops)
  /\ UNCHANGED <<currentDrawingId, server, entity, save, poll>>

\* HomePage.setActiveTool, from the toolbar or a hotkey
SetTool(t) ==
  /\ canvas.tool # t
  /\ canvas' = [canvas EXCEPT !.tool = t]
  /\ hist' = Called("setTool")
  /\ timer' = useDebounce(timer)
  /\ UNCHANGED <<drawing, opHistory, historyIndex, selectedIds, currentDrawingId, rendered,
                 server, entity, save, poll, nextId, batch, unacked>>

\* HomePage.setEnableSnapping(!enableSnapping), between two gestures
ToggleSnapping ==
  /\ ~canvas.captured
  /\ canvas' = [canvas EXCEPT !.enableSnapping = ~@]
  /\ hist' = Called("toggleSnapping")
  /\ timer' = useDebounce(timer)
  /\ UNCHANGED <<drawing, opHistory, historyIndex, selectedIds, currentDrawingId, rendered,
                 server, entity, save, poll, nextId, batch, unacked>>

\* a variant that takes the rotate handle for a resize handle
handlePointerDownActionNoRotate(c, r, target) ==
  CASE c.tool = "hand" -> [type |-> "panning"]
    [] c.tool = "eraser" -> [type |-> "erasing"]
    [] c.tool = "select" ->
         IF target.handle # None /\ target.elementId # None
         THEN [type |-> "resizing", elementId |-> target.elementId, handle |-> target.handle]
         ELSE IF target.elementId # None THEN [type |-> "dragging"] ELSE c.action
    [] OTHER -> [type |-> "drawing"]

\* the action handlePointerDown sets; Idle stands for none set
handlePointerDownAction(c, r, target) ==
  CASE c.tool = "hand" -> [type |-> "panning"]
    [] c.tool = "eraser" -> [type |-> "erasing"]
    [] c.tool = "select" ->
         IF target.handle # None /\ target.elementId # None
         THEN IF target.handle = "rotate"
              THEN [type |-> "rotating", elementId |-> target.elementId]
              ELSE [type |-> "resizing", elementId |-> target.elementId,
                    handle |-> target.handle]
         ELSE IF target.elementId # None THEN [type |-> "dragging"] ELSE c.action
    [] OTHER -> [type |-> "drawing"]

handlePointerDownSelection(c, r, s, target, shiftKey) ==
  IF c.tool = "select" /\ ~(target.handle # None /\ target.elementId # None)
  THEN IF target.elementId # None
       THEN IF \E i \in 1..Len(r.selectedIds) : r.selectedIds[i] = target.elementId
            THEN s
            ELSE onSelect(s, target.elementId, shiftKey)
       ELSE onDeselectAll(s)
  ELSE s

PointerDown(point, target, shiftKey) ==
  /\ rendered.currentDrawingId # NoDoc
  /\ ~canvas.captured
  /\ canvas' = [canvas EXCEPT
                  !.captured = TRUE,
                  !.start = point,
                  !.last = point,
                  !.action = handlePointerDownAction(canvas, rendered, target),
                  !.points = IF canvas.tool = "pen" THEN <<point>> ELSE @]
  /\ Commit(handlePointerDownSelection(canvas, rendered, HookState, target, shiftKey))
  /\ hist' = [Called("pointerDown") EXCEPT
                !.at = point, !.target = target, !.shiftKey = shiftKey]
  /\ UNCHANGED <<currentDrawingId, server, entity, save, poll, nextId, unacked>>

\* the operations handlePointerMove dispatches
handlePointerMoveOps(c, r, point, n) ==
  LET delta == Pt(point.x - c.last.x, point.y - c.last.y)
  IN  CASE c.action.type = "dragging" ->
             IF Len(r.selectedIds) = 0 THEN <<>> ELSE onDragMove(r, delta, n)
        [] c.action.type = "resizing" ->
             onResize(r, c.action.handle, delta, c.action.elementId, n)
        [] c.action.type = "rotating" -> onRotate(r, c.last, point, c.action.elementId, n)
        [] OTHER -> <<>>

\* whether handlePointerMove ends by an exception: `case 'erasing':
\* throttledEraser(point)` calls what useThrottle returned, the throttled
\* value of its argument and not a function
handlePointerMoveThrows(c) == c.action.type = "erasing"

\* the state and the refs after handlePointerMove.  In `erasing` the call
\* of throttledEraser throws (useThrottle returns a throttled value, here
\* not a function) and the handler ends before it records the point.
handlePointerMove(c, point) ==
  LET snappedPoint == IF c.enableSnapping THEN snapToGrid(point, GridSize) ELSE point
      drawing_ == c.action.type = "drawing"
  IN  IF c.action.type = "erasing" THEN c
      ELSE [c EXCEPT
              !.last = point,
              !.points = IF drawing_ /\ c.tool = "pen" THEN Append(@, snappedPoint) ELSE @,
              !.preview = IF drawing_ /\ c.tool \notin {"select", "hand"} THEN TRUE ELSE @]

LastTwo(seq) == IF Len(seq) > 2 THEN SubSeq(seq, Len(seq) - 1, Len(seq)) ELSE seq

\* the moves of a pressed pointer
PointerMove(point) ==
  /\ rendered.currentDrawingId # NoDoc
  /\ canvas.captured
  /\ (canvas.action.type = "drawing" /\ canvas.tool = "pen")
       => Len(canvas.points) + 1 < ShortPath
  /\ canvas' = handlePointerMove(canvas, point)
  /\ CanvasDispatch(HookState, handlePointerMoveOps(canvas, rendered, point, nextId))
  /\ hist' = [Called("pointerMove") EXCEPT
                !.from = canvas.action.type,
                !.drag = IF canvas.action.type = "dragging"
                         THEN LastTwo(Append(IF hist.call = "pointerMove" THEN hist.drag ELSE <<>>,
                                             Pt(point.x - canvas.last.x, point.y - canvas.last.y)))
                         ELSE <<>>]

\* a variant that leaves a pan going
handlePointerUpKeepPan(c) ==
  [c EXCEPT !.captured = FALSE, !.action = IF @.type = "panning" THEN @ ELSE Idle,
            !.points = <<>>, !.preview = FALSE]

\* the state and the refs after handlePointerUp
handlePointerUp(c) ==
  [c EXCEPT !.captured = FALSE, !.action = Idle, !.points = <<>>, !.preview = FALSE]

\* the operations handlePointerUp dispatches
handlePointerUpOps(c, point, n) ==
  LET endPoint == IF c.enableSnapping THEN snapToGrid(point, GridSize) ELSE point
  IN  IF c.tool = "pen" /\ Len(c.points) > 1 THEN createStroke(c.points, n)
      ELSE IF c.tool \notin {"select", "hand", "pen", "eraser"}
           THEN createElement(c.tool, c.start, endPoint, n)
           ELSE <<>>

\* onPointerUp={handlePointerUp}
PointerUp(point) ==
  /\ rendered.currentDrawingId # NoDoc
  /\ canvas.captured
  /\ canvas' = handlePointerUp(canvas)
  /\ CanvasDispatch(HookState, handlePointerUpOps(canvas, point, nextId))
  /\ hist' = At("pointerUp", point)

\* onPointerCancel={handlePointerUp}
PointerCancel(point) ==
  /\ rendered.currentDrawingId # NoDoc
  /\ canvas.captured
  /\ canvas' = handlePointerUp(canvas)
  /\ CanvasDispatch(HookState, handlePointerUpOps(canvas, point, nextId))
  /\ hist' = At("pointerCancel", point)

\* no more than cap operations are dispatched in all
Within(cap) == nextId' <= cap + 1

NextCanvas ==
  \/ Load /\ Sync
  \/ \E t \in Tools : ~canvas.captured /\ SetTool(t)
  \/ ToggleSnapping
  \/ \E point \in PressPoints, target \in Targets, shiftKey \in BOOLEAN :
       PointerDown(point, target, shiftKey) /\ Sync
  \/ \E point \in CanvasPoints : PointerMove(point) /\ Sync /\ Within(MaxCanvasOps)
  \/ \E point \in CanvasPoints : PointerUp(point) /\ Sync /\ Within(MaxCanvasOps)
  \/ \E point \in CanvasPoints : PointerCancel(point) /\ Sync /\ Within(MaxCanvasOps)

SpecCanvas == Init /\ [][NextCanvas]_vars

\* Presses and releases while the tool hotkeys are used at any moment, also
\* between a press and its release.
NextSwitch ==
  \/ Load /\ Sync
  \/ \E t \in Tools : SetTool(t)
  \/ \E point \in PressPoints, target \in Targets, shiftKey \in BOOLEAN :
       PointerDown(point, target, shiftKey) /\ Sync
  \/ \E point \in CanvasPoints : PointerUp(point) /\ Sync /\ Within(MaxCanvasOps)

SpecSwitch == Init /\ [][NextSwitch]_vars

-----------------------------------------------------------------------------
(* The select tool on a document of two rectangles: one drawn from (10,10) *)
(* to (110,60), one left by a click at (10,10), both with snapping off.    *)

DragDoc ==
  createElement("rectangle", Pt(10, 10), Pt(110, 60), -2)
    \o createElement("rectangle", Pt(10, 10), Pt(10, 10), -1)

\* where the pressed pointer moves and is released
DragPoints == {Pt(15, 5), Pt(20, 0)}

InitDrag ==
  /\ InitHook
  /\ canvas = [InitCanvas EXCEPT !.tool = "select"]
  /\ entity = InitEntity
  /\ save = NoCall
  /\ poll = NoCall
  /\ nextId = 1
  /\ batch = 0
  /\ timer = 1
  /\ unacked = {}
  /\ hist = NoHist
  /\ server = [elements |-> workerApplyOpsToElements(DragDoc, <<>>),
               ops |-> DragDoc, opVersion |-> Len(DragDoc)]

NextDrag ==
  \/ Load /\ Sync
  \/ \E point \in PressPoints, target \in Targets, shiftKey \in BOOLEAN :
       PointerDown(point, target, shiftKey) /\ Sync
  \/ \E point \in DragPoints : PointerMove(point) /\ Sync /\ Within(MaxDragOps)
  \/ \E point \in DragPoints : PointerMove(point) /\ Stale /\ Within(MaxDragOps)
  \/ \E point \in PressPoints : PointerUp(point) /\ Sync
  \/ \E point \in PressPoints : PointerCancel(point) /\ Sync
  \/ Render

SpecDrag == InitDrag /\ [][NextDrag]_vars

\* The same document while the element of a gesture goes away: its `add`
\* is undone (mod+z or the toolbar) during the gesture, and the next
\* pointer move is handled after or before the render that follows.
GoneTools == {"select", "eraser"}

NextGone ==
  \/ Load /\ Sync
  \/ \E t \in GoneTools : ~canvas.captured /\ SetTool(t)
  \/ \E point \in PressPoints, target \in Targets, shiftKey \in {FALSE} :
       PointerDown(point, target, shiftKey) /\ Sync
  \/ \E point \in PressPoints : PointerMove(Pt(point.x + 5, point.y - 5)) /\ Sync /\ Within(MaxDragOps)
  \/ \E point \in PressPoints : PointerUp(point) /\ Sync
  \/ Undo /\ Sync
  \/ Undo /\ Stale
  \/ Render

SpecGone == InitDrag /\ [][NextGone]_vars

-----------------------------------------------------------------------------
(* The two projectors fed the same operations, one at a time: every        *)
(* operation is dispatched into the client's log and appended to the       *)
(* store.  The payloads cover well-formed and malformed ones.              *)

Rect(id, x) ==
  [id |-> id, type |-> "rectangle", x |-> x, y |-> 0, fillColor |-> "transparent"]

TextEl(id) == [id |-> id, type |-> "text", x |-> 0, y |-> 0, text |-> "Text"]

\* payloads of `add` that are no full element: no id and no type, no type,
\* a list
Malformed ==
  {ObjData([x |-> 0, y |-> 0]), ObjData([id |-> "4", x |-> 0]), ArrData(<<Rect("1", 0)>>)}

ProjOps(n) ==
  {generateOp("add", None, ObjData(e), n) : e \in {Rect("1", 0), Rect("1", 5), TextEl("3")}}
    \cup {generateOp("add", None, d, n) : d \in Malformed}
    \cup {generateOp("update", e, ObjData(d), n) :
            e \in {"1", "3"}, d \in {[x |-> 1], [x |-> 2, y |-> 1], [isEditing |-> TRUE]}}
    \cup {generateOp("update", "9", ObjData([x |-> 1]), n)}
    \cup {generateOp("delete", e, NoData, n) : e \in {"1", "9"}}
    \cup {generateOp("reorder", None, ArrData(<<TextEl("3"), Rect("1", 0)>>), n)}

Project(op) ==
  /\ Len(opHistory) < MaxProjOps
  /\ Commit(dispatchOp(rendered, HookState, op))
  /\ server' = appendOps(server, <<op>>)
  /\ nextId' = nextId + 1
  /\ hist' = Called("project")
  /\ UNCHANGED <<canvas, entity, currentDrawingId, save, poll, unacked>>

NextProj == \E op \in ProjOps(nextId) : Project(op) /\ Sync

SpecProj == Init /\ [][NextProj]_vars

-----------------------------------------------------------------------------
(* The store under concurrent requests: two appendOps calls on the one     *)
(* document, and the presence heartbeats that write the same state.        *)

\* Entity.mutate, first half: read the state and its version
mutateRead(ent, st) == [version |-> ent.version, state |-> st]

\* a variant that writes whatever the version is now
casPutBlind(ent, st, seen, next) ==
  [ok |-> TRUE, state |-> next, version |-> ent.version + 1]

\* Entity.mutate, second half: write `next` if the version read is still
\* the current one, else reject with the concurrent-modification error
casPut(ent, st, seen, next) ==
  IF ent.version = seen.version
  THEN [ok |-> TRUE, state |-> next, version |-> ent.version + 1]
  ELSE [ok |-> FALSE, state |-> st, version |-> ent.version]

\* a variant that retries whatever the error is
appendOpsCatchAny(call, concurrent) ==
  IF call.attempt < MaxAttempts - 1
  THEN [call EXCEPT !.pc = "backoff", !.delay = BackoffBase * 2 ^ call.attempt,
                    !.err = IF concurrent THEN "Concurrent" ELSE "other"]
  ELSE [call EXCEPT !.pc = "failed", !.err = IF concurrent THEN "Concurrent" ELSE "other"]

\* the catch block of appendOps
appendOpsCatch(call, concurrent) ==
  IF concurrent /\ call.attempt < MaxAttempts - 1
  THEN [call EXCEPT !.pc = "backoff", !.delay = BackoffBase * 2 ^ call.attempt,
                    !.err = "Concurrent"]
  ELSE [call EXCEPT !.pc = "failed", !.err = IF concurrent THEN "Concurrent" ELSE "other"]

StoreOp1 == generateOp("add", None, ObjData(NewElement(1)), 1)
StoreOp2 == generateOp("update", "1", ObjData([x |-> 2]), 2)
StoreOp3 == generateOp("add", None, ObjData(NewElement(3)), 3)

\* the batches posted: none, one operation, two out of order, one of
\* another client
StoreBatches == {<<>>, <<StoreOp1>>, <<StoreOp2, StoreOp1>>, <<StoreOp3>>}

ClientIdle ==
  UNCHANGED <<drawing, opHistory, historyIndex, selectedIds, currentDrawingId, rendered,
              save, poll, nextId, batch, unacked, hist, canvas, timer>>

\* appendOps(ops) is called: nothing to do for an empty batch
AppendCall(c, ops) ==
  /\ entity.calls[c].pc = "idle"
  /\ entity' = [entity EXCEPT !.calls[c] =
                  IF Len(ops) = 0 THEN [NoAppend EXCEPT !.pc = "done"]
                  ELSE [NoAppend EXCEPT !.pc = "try", !.ops = ops]]
  /\ UNCHANGED server
  /\ ClientIdle

\* one attempt starts: the batch is sorted and mutate reads the state
AppendRead(c) ==
  /\ entity.calls[c].pc = "try"
  /\ entity' = [entity EXCEPT !.calls[c].pc = "write",
                              !.calls[c].ops = SortByTs(@),
                              !.calls[c].seen = mutateRead(entity, server)]
  /\ UNCHANGED server
  /\ ClientIdle

\* mutate writes what the updater makes of the state it read, or throws
AppendWrite(c) ==
  /\ entity.calls[c].pc = "write"
  /\ LET call == entity.calls[c]
         put == casPut(entity, server, call.seen, appendOps(call.seen.state, call.ops))
     IN  /\ server' = put.state
         /\ entity' = [entity EXCEPT
                         !.version = put.version,
                         !.calls[c] = IF put.ok THEN [call EXCEPT !.pc = "done"]
                                      ELSE appendOpsCatch(call, TRUE)]
  /\ ClientIdle

\* mutate throws another error: the storage fails
AppendThrow(c) ==
  /\ entity.calls[c].pc = "write"
  /\ entity' = [entity EXCEPT !.calls[c] = appendOpsCatch(@, FALSE)]
  /\ UNCHANGED server
  /\ ClientIdle

\* the backoff timer fires: the loop goes on with the next attempt
AppendBackoff(c) ==
  /\ entity.calls[c].pc = "backoff"
  /\ entity' = [entity EXCEPT !.calls[c].pc = "try", !.calls[c].attempt = @ + 1]
  /\ UNCHANGED server
  /\ ClientIdle

\* updatePresence: a heartbeat writes the same state
PresenceWrite ==
  /\ entity.presence < MaxPresence
  /\ entity' = [entity EXCEPT !.version = @ + 1, !.presence = @ + 1]
  /\ UNCHANGED server
  /\ ClientIdle

NextStore ==
  \/ \E c \in Callers, ops \in StoreBatches : AppendCall(c, ops) /\ Away
  \/ \E c \in Callers : AppendRead(c) /\ Away
  \/ \E c \in Callers : AppendWrite(c) /\ Away
  \/ \E c \in Callers : AppendThrow(c) /\ Away
  \/ \E c \in Callers : AppendBackoff(c) /\ Away
  \/ PresenceWrite /\ Away

SpecStore == Init /\ [][NextStore]_vars

-----------------------------------------------------------------------------
(* Path simplification (Ramer-Douglas-Peucker) on integer points.  A       *)
(* distance is kept as the pair of its squared numerator and squared       *)
(* denominator: sqrt(num / den).                                           *)

\* perpendicularDistance(point, lineStart, lineEnd): the distance to the
\* start when the line has no length, else to the line through both
perpendicularDistance(point, lineStart, lineEnd) ==
  LET dx == lineEnd.x - lineStart.x
      dy == lineEnd.y - lineStart.y
      numerator == Abs(dy * point.x - dx * point.y
                         + lineEnd.x * lineStart.y - lineEnd.y * lineStart.x)
  IN  IF dx = 0 /\ dy = 0
      THEN [num |-> (point.x - lineStart.x) ^ 2 + (point.y - lineStart.y) ^ 2, den |-> 1]
      ELSE [num |-> numerator ^ 2, den |-> dy ^ 2 + dx ^ 2]

\* d > dmax, for two distances to the same line
Farther(d, dmax) == d.num * dmax.den > dmax.num * d.den

\* dmax > tolerance
Exceeds(dmax, tolerance) == dmax.num > tolerance ^ 2 * dmax.den

\* the loop `for (let i = 1; i < end; i++)`, from position i on: the first
\* point farthest from the line of the two ends, and its distance
RECURSIVE FarthestFrom(_, _, _)
FarthestFrom(points, i, best) ==
  IF i >= Len(points) THEN best
  ELSE LET d == perpendicularDistance(points[i], points[1], points[Len(points)])
       IN  FarthestFrom(points, i + 1,
                        IF Farther(d, best.dmax) THEN [index |-> i, dmax |-> d] ELSE best)

\* a variant that cuts the first half one point before the farthest one
RECURSIVE simplifyPointsCutEarly(_, _)
simplifyPointsCutEarly(points, tolerance) ==
  IF Len(points) < ShortPath THEN points
  ELSE LET far == FarthestFrom(points, 2, [index |-> 1, dmax |-> [num |-> 0, den |-> 1]])
       IN  IF Exceeds(far.dmax, tolerance)
           THEN LET recResults1 == simplifyPointsCutEarly(SubSeq(points, 1, far.index - 1), tolerance)
                    recResults2 == simplifyPointsCutEarly(SubSeq(points, far.index, Len(points)),
                                                          tolerance)
                IN  SubSeq(recResults1, 1, Len(recResults1) - 1) \o recResults2
           ELSE <<points[1], points[Len(points)]>>

\* a variant that keeps the farthest point at the end of the first half too
RECURSIVE simplifyPointsKeepJoin(_, _)
simplifyPointsKeepJoin(points, tolerance) ==
  IF Len(points) < ShortPath THEN points
  ELSE LET far == FarthestFrom(points, 2, [index |-> 1, dmax |-> [num |-> 0, den |-> 1]])
       IN  IF Exceeds(far.dmax, tolerance)
           THEN simplifyPointsKeepJoin(SubSeq(points, 1, far.index), tolerance)
                  \o simplifyPointsKeepJoin(SubSeq(points, far.index, Len(points)), tolerance)
           ELSE <<points[1], points[Len(points)]>>

RECURSIVE simplifyPoints(_, _)
simplifyPoints(points, tolerance) ==
  IF Len(points) < ShortPath THEN points
  ELSE LET far == FarthestFrom(points, 2, [index |-> 1, dmax |-> [num |-> 0, den |-> 1]])
       IN  IF Exceeds(far.dmax, tolerance)
           THEN LET recResults1 == simplifyPoints(SubSeq(points, 1, far.index), tolerance)
                    recResults2 == simplifyPoints(SubSeq(points, far.index, Len(points)),
                                                  tolerance)
                IN  SubSeq(recResults1, 1, Len(recResults1) - 1) \o recResults2
           ELSE <<points[1], points[Len(points)]>>

\* the points a pen path goes through, and the tolerances it is simplified
\* with (createStroke uses 1)
PathPoints == {Pt(0, 0), Pt(2, 0), Pt(4, 0), Pt(2, 1), Pt(3, 2)}
Tolerances == {0, 1, 2}

\* the pen adds a point to the path
PenTrace(point) ==
  /\ Len(canvas.points) < MaxPathLen
  /\ canvas' = [canvas EXCEPT !.points = Append(@, point)]
  /\ hist' = NoHist
  /\ UNCHANGED <<drawing, opHistory, historyIndex, selectedIds, currentDrawingId, rendered,
                 server, save, poll, nextId, batch, unacked, entity, timer>>

\* simplifyPoints(points, tolerance) of the path: hist keeps the input
\* (pre), the output (post) and the tolerance (cut)
Simplify(tolerance) ==
  /\ Len(canvas.points) > 0
  /\ hist' = [Called("simplify") EXCEPT !.pre = canvas.points, !.cut = tolerance,
                                        !.post = simplifyPoints(canvas.points, tolerance)]
  /\ UNCHANGED <<canvas, drawing, opHistory, historyIndex, selectedIds, currentDrawingId,
                 rendered, server, save, poll, nextId, batch, unacked, entity, timer>>

\* the output is simplified again with the same tolerance: hist keeps the
\* path it came from (drag), the first output (pre) and the second (post)
Resimplify ==
  /\ hist.call = "simplify"
  /\ hist' = [Called("resimplify") EXCEPT !.drag = hist.pre, !.pre = hist.post, !.cut = hist.cut,
                                          !.post = simplifyPoints(hist.post, hist.cut)]
  /\ UNCHANGED <<canvas, drawing, opHistory, historyIndex, selectedIds, currentDrawingId,
                 rendered, server, save, poll, nextId, batch, unacked, entity, timer>>

NextPath ==
  \/ \E point \in PathPoints : PenTrace(point)
  \/ \E tolerance \in Tolerances : Simplify(tolerance)
  \/ Resimplify

SpecPath == Init /\ [][NextPath]_vars

-----------------------------------------------------------------------------
(* Alignment guides of a preview box against the elements of the document  *)
(* of two rectangles.  Widths and heights are even, so that the centers    *)
(* are whole numbers.                                                      *)

\* the body of the loop of getAlignmentGuides: the guides of one element
\* against the preview
guidesOfPair(el, preview) ==
  LET Bounds(b) ==
        [left |-> b.x, right |-> b.x + b.width, top |-> b.y, bottom |-> b.y + b.height,
         centerX |-> b.x + b.width \div 2, centerY |-> b.y + b.height \div 2]
      Guide(type, sx, sy, ex, ey) == [type |-> type, start |-> Pt(sx, sy), end |-> Pt(ex, ey)]
      p == Bounds(preview)
      e == Bounds(el)
      top == Min(p.top, e.top)
      bottom == Max(p.bottom, e.bottom)
      left == Min(p.left, e.left)
      right == Max(p.right, e.right)
      when(cond, guide) == IF cond THEN <<guide>> ELSE <<>>
  IN  IF el.id = preview.id THEN <<>>
      ELSE when(Abs(p.left - e.left) < GuideThreshold, Guide("vertical", e.left, top, e.left, bottom))
        \o when(Abs(p.right - e.right) < GuideThreshold, Guide("vertical", e.right, top, e.right, bottom))
        \o when(Abs(p.centerX - e.centerX) < GuideThreshold,
                Guide("vertical", e.centerX, top, e.centerX, bottom))
        \o when(Abs(p.top - e.top) < GuideThreshold, Guide("horizontal", left, e.top, right, e.top))
        \o when(Abs(p.bottom - e.bottom) < GuideThreshold,
                Guide("horizontal", left, e.bottom, right, e.bottom))
        \o when(Abs(p.centerY - e.centerY) < GuideThreshold,
                Guide("horizontal", left, e.centerY, right, e.centerY))

RECURSIVE getAlignmentGuides(_, _)
getAlignmentGuides(elements, preview) ==
  IF Len(elements) = 0 THEN <<>>
  ELSE guidesOfPair(elements[1], preview) \o getAlignmentGuides(Tail(elements), preview)

\* the preview boxes of a shape being drawn: tempPreview of handlePointerMove
PreviewBoxes ==
  {[id |-> "preview", type |-> "rectangle", x |-> x, y |-> y, width |-> w, height |-> h] :
     x \in 5..15, y \in {10, 40}, w \in {0, 2, 100}, h \in {0, 50}}

\* setAlignmentGuides(getAlignmentGuides(elements, tempPreview)): hist
\* keeps the preview (pre) and the guides (post)
ShowGuides(preview) ==
  /\ rendered.currentDrawingId # NoDoc
  /\ hist' = [Called("guides") EXCEPT !.pre = <<preview>>,
                                      !.post = getAlignmentGuides(rendered.elements, preview)]
  /\ UNCHANGED <<canvas, drawing, opHistory, historyIndex, selectedIds, currentDrawingId,
                 rendered, server, save, poll, nextId, batch, unacked, entity, timer>>

NextGuides ==
  \/ Load /\ Sync
  \/ \E preview \in PreviewBoxes : ShowGuides(preview)

SpecGuides == InitDrag /\ [][NextGuides]_vars

-----------------------------------------------------------------------------
(* Properties *)

\* the first n entries of a log; empty for n <= 0
Take(log, n) == SubSeq(log, 1, Min(n, Len(log)))

IsPrefix(a, b) == Len(a) <= Len(b) /\ SubSeq(b, 1, Len(a)) = a

SavePhaseStep == save'.phase # save.phase
PollPhaseStep == poll'.phase # poll.phase
SaveFailStep == save.phase = "sent" /\ save'.phase = "none"
PollFailStep == poll.phase = "sent" /\ poll'.phase = "none"
PollMergeStep ==
  poll.phase = "received" /\ poll'.phase = "none" /\ Len(poll.remoteOps) > 0
DispatchStep == nextId' = nextId + 1 /\ hist'.call = "dispatch" /\ server' = server

\* C1: in every reachable state 0 <= cursor <= log length, also when
\* several undo or redo calls are handled before the hook re-renders.
C1_CursorInRange == 0 <= historyIndex /\ historyIndex <= Len(opHistory)

\* C2: the log never holds more than UNDO_LIMIT (100) operations, after any
\* dispatch, remote merge or document load.
C2_LogWithinCap == Len(opHistory) <= UNDO_LIMIT

\* C3: no step of a push or of a poll (its start, its failure, its
\* completion) removes or replaces entries of the log: the log before the
\* step is a prefix of the log after it, so an operation dispatched before
\* or during the call is still there when the call completes.
C3_SyncKeepsLog ==
  [][(SavePhaseStep \/ PollPhaseStep) => IsPrefix(opHistory, opHistory')]_vars

\* C4: merge monotonicity: when a poll merges N remote operations, opVersion
\* grows by exactly N, the log becomes the previous log followed by the N
\* operations in fetched order, and the projected list is the projection of
\* that log.
C4_MergeMonotonic ==
  [][PollMergeStep =>
       /\ drawing'.opVersion = drawing.opVersion + Len(poll.remoteOps)
       /\ opHistory' = opHistory \o poll.remoteOps
       /\ currentElements(opHistory', historyIndex')
            = applyOpsToElements(opHistory \o poll.remoteOps, <<>>)]_vars

\* C5: the batch a push is handed (pendingOps) holds exactly the operations
\* dispatched locally and not yet acknowledged.
C5_PendingIsUnacked ==
  rendered.currentDrawingId # NoDoc => OpIds(pendingOps(rendered)) = unacked

\* C6: a failed push and a failed poll leave the local state unchanged: the
\* log, the cursor, the acknowledged version and the projected element list
\* are the same after the failure as before it.
C6_FailureKeepsState ==
  [][(SaveFailStep \/ PollFailStep) =>
       /\ opHistory' = opHistory
       /\ historyIndex' = historyIndex
       /\ drawing' = drawing
       /\ rendered'.elements = rendered.elements
       /\ pendingOps(rendered') = pendingOps(rendered)]_vars

\* a push or a poll has just failed while local operations were pending
C6_Witness ==
  /\ hist.call \in {"saveFail", "pollFail"}
  /\ Len(pendingOps(rendered)) > 0

\* C7: every pending local operation is eventually accepted by the store:
\* once no push is in flight and nothing is left to push, every operation
\* dispatched locally and not yet acknowledged is in the stored log.
C7_NothingLeftBehind ==
  (save.phase = "none" /\ Len(pendingOps(rendered)) = 0)
    => unacked \subseteq OpIds(server.ops)

C9_UndoRedoInverse ==
  /\ hist.call = "undo" => rendered.elements = hist.pre
  /\ hist.call = "redo" => rendered.elements = hist.post

-----------------------------------------------------------------------------
(* Properties of the projector *)

ProjectStep == hist'.call = "project" /\ nextId' = nextId + 1
AppliedOp == opHistory'[Len(opHistory')]

IdsOf(els) == [i \in 1..Len(els) |-> IdOf(els[i])]

NoDuplicateIds(els) ==
  \A i, j \in 1..Len(els) : (i < j /\ IdOf(els[i]) # None) => IdOf(els[i]) # IdOf(els[j])

Without(els, k) == SubSeq(els, 1, k - 1) \o SubSeq(els, k + 1, Len(els))

\* C11: local operations apply in call order: a dispatch that follows a
\* dispatch, with no undo in between, leaves a log that ends with the two
\* operations, in the order they were dispatched; also for the dispatches
\* one handler issues in a row.
C11_CallOrder ==
  [][(DispatchStep /\ hist.call = "dispatch" /\ Len(opHistory) > 0) =>
       /\ Len(opHistory') >= 2
       /\ opHistory'[Len(opHistory') - 1] = opHistory[Len(opHistory)]
       /\ opHistory'[Len(opHistory')].id = nextId]_vars

\* C12: the projected list never holds two elements with the same id (an
\* `add` of an id already there replaces the element in place).
C12_NoDuplicateIds ==
  NoDuplicateIds(rendered.elements) /\ NoDuplicateIds(server.elements)

\* C13: a `reorder` replaces the whole list with its payload, verbatim.
C13_ReorderReplaces ==
  [][(ProjectStep /\ AppliedOp.type = "reorder" /\ AppliedOp.data.kind = "array")
       => rendered'.elements = AppliedOp.data.val]_vars

\* C14: an `update` or a `delete` whose target matches no element of the
\* list leaves the list as it was.
C14_MissingTargetNoOp ==
  [][(ProjectStep /\ AppliedOp.type \in {"update", "delete"}) =>
       /\ FindIndex(rendered.elements, AppliedOp.elementId) = 0
            => rendered'.elements = rendered.elements
       /\ FindIndex(server.elements, AppliedOp.elementId) = 0
            => server'.elements = server.elements]_vars

\* an update or a delete of an id that is not in a non-empty list was applied
C14_Witness ==
  /\ hist.call = "project"
  /\ Len(opHistory) >= 2
  /\ opHistory[Len(opHistory)].type \in {"update", "delete"}
  /\ opHistory[Len(opHistory)].elementId = "9"
  /\ Len(rendered.elements) > 0


\* the log ends with two updates of one element that is in the list
TwoUpdates ==
  /\ hist.call = "project"
  /\ Len(opHistory) >= 2
  /\ LET u1 == opHistory[Len(opHistory) - 1]
         u2 == opHistory[Len(opHistory)]
     IN  /\ u1.type = "update" /\ u2.type = "update"
         /\ u1.elementId = u2.elementId
         /\ u1.data.kind = "object" /\ u2.data.kind = "object"
         /\ FindIndex(rendered.elements, u2.elementId) # 0

\* the field `f` of the element the two updates at the end of the log name
\* has the value v
Projected(f, v) ==
  LET el == rendered.elements[FindIndex(rendered.elements, opHistory[Len(opHistory)].elementId)]
  IN  f \in DOMAIN el /\ el[f] = v

\* the projector takes `isEditing` off every element that is not a text
StrippedField(f) ==
  LET el == rendered.elements[FindIndex(rendered.elements, opHistory[Len(opHistory)].elementId)]
  IN  f = "isEditing" /\ TypeOf(el) # "text" /\ f \notin DOMAIN el

\* C15 as stated: of two updates of the same element, every field the
\* later one sets has the later one's value, and every field only the
\* earlier one sets has the earlier one's value.
C15_FieldLastWriteWins ==
  TwoUpdates =>
    LET p1 == opHistory[Len(opHistory) - 1].data.val
        p2 == opHistory[Len(opHistory)].data.val
    IN  /\ \A f \in DOMAIN p2 : Projected(f, p2[f])
        /\ \A f \in (DOMAIN p1) \ (DOMAIN p2) : Projected(f, p1[f])

\* C15, amended: the same, for every field but `isEditing` on an element
\* that is not a text element, which the projector removes after the merge.
C15_LastWriteWinsButIsEditing ==
  TwoUpdates =>
    LET p1 == opHistory[Len(opHistory) - 1].data.val
        p2 == opHistory[Len(opHistory)].data.val
    IN  /\ \A f \in DOMAIN p2 : Projected(f, p2[f]) \/ StrippedField(f)
        /\ \A f \in (DOMAIN p1) \ (DOMAIN p2) : Projected(f, p1[f]) \/ StrippedField(f)

\* two updates set x to different values, and only the later one sets y
C15_Witness ==
  /\ TwoUpdates
  /\ opHistory[Len(opHistory) - 1].data.val = [x |-> 1]
  /\ opHistory[Len(opHistory)].data.val = [x |-> 2, y |-> 1]
  /\ Projected("x", 2)

\* C16: list order is stable: an `add` of a new id puts the element last,
\* an `update` keeps every element at its place, a `delete` takes one
\* element out and keeps the order of the others.
C16_OrderStable ==
  [][ProjectStep =>
       LET op == AppliedOp
           old == rendered.elements
           new == rendered'.elements
       IN  /\ (op.type = "add" /\ op.data.kind = "object" /\ op.data \notin Malformed
                 /\ FindIndex(old, op.data.val.id) = 0)
                => new = Append(old, op.data.val)
           /\ op.type = "update" => IdsOf(new) = IdsOf(old)
           /\ op.type = "delete"
                => \/ new = old
                   \/ \E k \in 1..Len(old) : IdOf(old[k]) = op.elementId /\ new = Without(old, k)]_vars

\* a new element was added to a list that held one already, and came last
C16_Witness ==
  /\ hist.call = "project"
  /\ opHistory[Len(opHistory)].type = "add"
  /\ Len(rendered.elements) >= 2
  /\ NoDuplicateIds(rendered.elements)
  /\ rendered.elements[Len(rendered.elements)] = opHistory[Len(opHistory)].data.val

\* C17: an `add` whose payload is no full element is dropped: neither the
\* client's list nor the store's changes.
C17_MalformedAddDropped ==
  [][(ProjectStep /\ AppliedOp.type = "add" /\ AppliedOp.data \in Malformed) =>
       /\ rendered'.elements = rendered.elements
       /\ server'.elements = server.elements]_vars

-----------------------------------------------------------------------------
(* Properties of the canvas, under SpecCanvas *)

Releases == {"pointerUp", "pointerCancel"}
InteractionStates == {"drawing", "panning", "dragging", "resizing", "rotating", "erasing"}

ReleaseStep == canvas.captured /\ hist'.call \in Releases

\* C18: from every interaction state a pointer-up or a pointer-cancel
\* leaves the canvas in Idle, whatever the active tool.
C18_ReleaseReturnsToIdle ==
  [][ReleaseStep => canvas'.action = Idle]_vars

\* a pointer-cancel has just ended a resize
C18_Witness ==
  /\ hist.call = "pointerCancel"
  /\ hist.from = "resizing"
  /\ canvas.action = Idle

\* C19: a pointer-cancel dispatches no operation and leaves the log as it
\* was, whatever the tool and the interaction state.
C19_CancelDispatchesNothing ==
  [][(canvas.captured /\ hist'.call = "pointerCancel")
       => /\ opHistory' = opHistory
          /\ historyIndex' = historyIndex
          /\ nextId' = nextId]_vars

\* the rectangle tool, pressed at (10,10) and released at (110,60)
RectangleDrag ==
  /\ canvas.captured
  /\ canvas.tool = "rectangle"
  /\ canvas.start = Pt(10, 10)
  /\ hist'.call = "pointerUp"
  /\ hist'.at = Pt(110, 60)

\* one `add` of a rectangle of width w at (10,10), 50 high, is dispatched
\* and the projection holds that rectangle
OneAddOfWidth(w) ==
  /\ nextId' = nextId + 1
  /\ Len(opHistory') = Len(opHistory) + 1
  /\ historyIndex' = Len(opHistory')
  /\ LET op == opHistory'[Len(opHistory')]
         els == currentElements(opHistory', historyIndex')
     IN  /\ op.type = "add"
         /\ op.data.val.type = "rectangle"
         /\ op.data.val.x = 10 /\ op.data.val.y = 10
         /\ op.data.val.width = w /\ op.data.val.height = 50
         /\ Len(els) = Len(rendered.elements) + 1
         /\ els[Len(els)] = op.data.val
         /\ rendered'.elements = els

PressStep == ~canvas.captured /\ hist'.call = "pointerDown"

IsSelected(id) == \E i \in 1..Len(selectedIds) : selectedIds[i] = id

\* C27: a pointer-down takes the transition the active tool selects: hand
\* to Panning, eraser to Erasing; with the select tool a rotate handle to
\* Rotating(element), another handle to Resizing(element, handle), a
\* selected element to Dragging with the selection as it was, an unselected
\* element to Dragging with the selection made of it (or with it added under
\* the multi-select modifier), the empty canvas to a cleared selection in
\* Idle; any drawing tool to Drawing; the anchor is recorded and the pen
\* accumulator starts as [anchor].
C27_PointerDownTransitions ==
  [][PressStep =>
       LET t == hist'.target
           onHandle == t.handle # None /\ t.elementId # None
       IN  /\ canvas'.start = hist'.at
           /\ CASE canvas.tool = "hand" ->
                    canvas'.action = [type |-> "panning"] /\ selectedIds' = selectedIds
               [] canvas.tool = "eraser" ->
                    canvas'.action = [type |-> "erasing"] /\ selectedIds' = selectedIds
               [] canvas.tool = "select" /\ onHandle /\ t.handle = "rotate" ->
                    /\ canvas'.action = [type |-> "rotating", elementId |-> t.elementId]
                    /\ selectedIds' = selectedIds
               [] canvas.tool = "select" /\ onHandle /\ t.handle # "rotate" ->
                    /\ canvas'.action = [type |-> "resizing", elementId |-> t.elementId,
                                         handle |-> t.handle]
                    /\ selectedIds' = selectedIds
               [] canvas.tool = "select" /\ ~onHandle /\ t.elementId # None ->
                    /\ canvas'.action = [type |-> "dragging"]
                    /\ selectedIds' =
                         IF IsSelected(t.elementId) THEN selectedIds
                         ELSE IF hist'.shiftKey THEN Append(selectedIds, t.elementId)
                         ELSE <<t.elementId>>
               [] canvas.tool = "select" /\ ~onHandle /\ t.elementId = None ->
                    canvas'.action = Idle /\ selectedIds' = <<>>
               [] OTHER ->
                    /\ canvas'.action = [type |-> "drawing"]
                    /\ selectedIds' = selectedIds
                    /\ canvas.tool = "pen" => canvas'.points = <<hist'.at>>]_vars

\* the select tool has been pressed on the rotate handle of the selected
\* element
C27_Witness ==
  /\ hist.call = "pointerDown"
  /\ canvas.tool = "select"
  /\ hist.target.handle = "rotate"
  /\ canvas.action.type = "rotating"
  /\ canvas.action.elementId = hist.target.elementId
  /\ selectedIds = <<hist.target.elementId>>

\* the pen is released by a pointer-up
PenRelease ==
  /\ canvas.captured
  /\ canvas.tool = "pen"
  /\ hist'.call = "pointerUp"

\* one `add` of a stroke whose box is the bounding box of pts and whose
\* points are relative to the corner of that box
OneStrokeOf(pts) ==
  LET xs == {pts[i].x : i \in 1..Len(pts)}
      ys == {pts[i].y : i \in 1..Len(pts)}
      op == opHistory'[Len(opHistory')]
  IN  /\ nextId' = nextId + 1
      /\ Len(opHistory') = Len(opHistory) + 1
      /\ op.type = "add"
      /\ op.data.val.type = "stroke"
      /\ \A a \in xs : op.data.val.x <= a
      /\ \A b \in ys : op.data.val.y <= b
      /\ op.data.val.x \in xs /\ op.data.val.y \in ys
      /\ \A a \in xs : a <= op.data.val.x + op.data.val.width
      /\ \A b \in ys : b <= op.data.val.y + op.data.val.height
      /\ op.data.val.x + op.data.val.width \in xs
      /\ op.data.val.y + op.data.val.height \in ys
      /\ Len(op.data.val.points) = Len(pts)
      /\ \A i \in 1..Len(pts) :
            op.data.val.points[i] = Pt(pts[i].x - op.data.val.x, pts[i].y - op.data.val.y)

-----------------------------------------------------------------------------
(* Properties of the select tool, under SpecDrag *)

ElementOf(els, id) == els[FindIndex(els, id)]

Projection == currentElements(opHistory, historyIndex)

\* C22: with one element selected, two successive drag moves by (5,-5)
\* append two updates and leave the element at its original position
\* (10,10) plus (10,-10), also when the second move is handled before the
\* element list is read again.
C22_TwoDragMoves ==
  (/\ hist.call = "pointerMove"
   /\ hist.drag = <<Pt(5, -5), Pt(5, -5)>>
   /\ Len(selectedIds) = 1
   /\ nextId = 3)
    => /\ Len(opHistory) = Len(DragDoc) + 2
       /\ opHistory[Len(opHistory) - 1].type = "update"
       /\ opHistory[Len(opHistory)].type = "update"
       /\ ElementOf(Projection, selectedIds[1]).x = 20
       /\ ElementOf(Projection, selectedIds[1]).y = 0

\* a move of a drag, handled by the callbacks of the latest render
FreshDragMove ==
  /\ rendered = RenderOf(HookState, currentDrawingId)
  /\ canvas.action.type = "dragging"
  /\ hist'.call = "pointerMove"

\* C23: in Dragging, one pointer move with k selected elements appends k
\* updates, and every selected element is translated by the delta in the
\* projection.
C23_DragMovesEverySelected ==
  [][FreshDragMove =>
       LET delta == hist'.drag[Len(hist'.drag)]
           after == currentElements(opHistory', historyIndex')
       IN  /\ Len(opHistory') = Len(opHistory) + Len(selectedIds)
           /\ \A i \in 1..Len(selectedIds) :
                 /\ ElementOf(after, selectedIds[i]).x
                      = ElementOf(rendered.elements, selectedIds[i]).x + delta.x
                 /\ ElementOf(after, selectedIds[i]).y
                      = ElementOf(rendered.elements, selectedIds[i]).y + delta.y]_vars

\* a move of a resize of an element that is there, handled by the
\* callbacks of the latest render
FreshResizeMove ==
  /\ rendered = RenderOf(HookState, currentDrawingId)
  /\ canvas.action.type = "resizing"
  /\ hist'.call = "pointerMove"
  /\ FindIndex(rendered.elements, canvas.action.elementId) # 0

\* C28: resizing is clamped to a minimum of 10 by 10: whatever the handle
\* and the delta, a resize move leaves the element with a box at least 10
\* wide and 10 high, and no update it dispatches carries a width or a
\* height below 10.
C28_ResizeClamped ==
  [][FreshResizeMove =>
       LET after == currentElements(opHistory', historyIndex')
           el == ElementOf(after, canvas.action.elementId)
       IN  /\ el.width >= 10 /\ el.height >= 10
           /\ \A i \in (Len(opHistory) + 1)..Len(opHistory') :
                 /\ opHistory'[i].data.val.width >= 10
                 /\ opHistory'[i].data.val.height >= 10]_vars

\* the elements the log has added and the projection no longer shows
Gone ==
  {opHistory[i].data.val.id : i \in {j \in 1..Len(opHistory) : opHistory[j].type = "add"}}
    \ {Projection[i].id : i \in 1..Len(Projection)}

\* a pointer move of a gesture whose element has been deleted before: a
\* selected element of a drag, the element of a resize or a rotation, an
\* element the eraser is dragged over
MoveOnGone ==
  /\ hist'.call = "pointerMove"
  /\ CASE canvas.action.type = "dragging" ->
            \E i \in 1..Len(rendered.selectedIds) : rendered.selectedIds[i] \in Gone
       [] canvas.action.type \in {"resizing", "rotating"} -> canvas.action.elementId \in Gone
       [] canvas.action.type = "erasing" -> Gone # {}
       [] OTHER -> FALSE

\* the operations a step appends to the log
Appended == {i \in 1..Len(opHistory') : opHistory'[i].id \notin OpIds(opHistory)}

\* C29: no operation is emitted for a nonexistent id: when the element a
\* drag, a resize, a rotation or an erase targets has been deleted before
\* the move is processed, the move dispatches no update and no delete that
\* names a deleted element, and its handler raises no exception.
C29_NoOpForMissingId ==
  [][MoveOnGone =>
       /\ ~handlePointerMoveThrows(canvas)
       /\ \A i \in Appended :
             opHistory'[i].type \in {"update", "delete"}
               => opHistory'[i].elementId \notin Gone]_vars

-----------------------------------------------------------------------------
(* Properties of the debounced push, under SpecDebounce *)

\* the timeout of useDebounce has fired
DebounceFires == timer' < timer

\* C30: last-debounce-wins: at most one debounce timer is pending; a change
\* of the pending set before the timer fires cancels it and starts a new
\* one, so that the operations dispatched since the last push are pushed
\* together, all of them in one push, when the timer fires; a push in
\* flight is ended by its response or its failure only.
C30_LastDebounceWins ==
  [][/\ timer' <= 1
     /\ pendingOps(rendered') # pendingOps(rendered) => timer' = 1
     /\ (DebounceFires /\ unacked # {})
          => save'.phase = "sent" /\ OpIds(save'.ops) = unacked
     /\ (save.phase = "sent" /\ save' # save)
          => save'.phase = "stored" \/ hist'.call = "saveFail"]_vars

-----------------------------------------------------------------------------
(* Properties of the store, under SpecStore *)

StoredIds == {server.ops[i].id : i \in 1..Len(server.ops)}

\* C24: appendOps is idempotent per operation id: an operation posted again
\* leaves the stored log and the version counter as if it had been appended
\* once.
C24_AppendIdempotent ==
  /\ \A i, j \in 1..Len(server.ops) : i < j => server.ops[i].id # server.ops[j].id
  /\ server.opVersion = Cardinality(StoredIds)

Conflicting(call) == entity.version # call.seen.version

\* how far a call has got: it ends at 9 at the latest
Progress(call) ==
  CASE call.pc = "idle" -> -1
    [] call.pc = "try" -> 3 * call.attempt
    [] call.pc = "write" -> 3 * call.attempt + 1
    [] call.pc = "backoff" -> 3 * call.attempt + 2
    [] OTHER -> 9

\* what one step may do to the call of c
RetryRule(c) ==
  LET a == entity.calls[c]
      b == entity'.calls[c]
  IN  /\ b.attempt < 3
      /\ (a.pc = "write" /\ b.pc = "backoff")
           => Conflicting(a) /\ a.attempt < 2 /\ b.delay = 100 * 2 ^ a.attempt
      /\ (a.pc = "backoff" /\ b.pc # "backoff")
           => b.pc = "try" /\ b.attempt = a.attempt + 1
      /\ (a.pc = "write" /\ b.pc # "write" /\ Conflicting(a) /\ a.attempt = 2)
           => b.pc = "failed"
      /\ (a.pc = "write" /\ b.pc # "write" /\ ~Conflicting(a))
           => b.pc \in {"done", "failed"}
      /\ (a.pc = "write" /\ b.pc = "done") => ~Conflicting(a)
      /\ (a.pc \in {"done", "failed"}) => b = a
      /\ b # a => Progress(b) > Progress(a)

\* C25: appendOps makes at most 3 mutation attempts, retries only on a
\* conflict and after a backoff of 100 ms doubled per attempt, surfaces the
\* error when the third attempt conflicts, surfaces any other error at once,
\* and every call ends: each of its steps takes it further towards the end,
\* which is at most 9 steps away.
C25_BoundedRetry ==
  [][\A c \in Callers : RetryRule(c)]_vars

\* a call has given up after its third attempt met a conflict, having
\* waited 200 ms before it
C25_Witness ==
  \E c \in Callers :
    /\ entity.calls[c].pc = "failed"
    /\ entity.calls[c].err = "Concurrent"
    /\ entity.calls[c].attempt = 2
    /\ entity.calls[c].delay = 200

BothDone == \A c \in Callers : entity.calls[c].pc = "done"

Occurrences(op) == Cardinality({i \in 1..Len(server.ops) : server.ops[i] = op})

\* C26: when two concurrent appendOps calls have both succeeded, the stored
\* log holds every operation of both batches, the element list is the log
\* applied in its stored order, and the version counter has grown by the
\* number of operations appended.
C26_ConcurrentAppendsAtomic ==
  BothDone =>
    LET a == entity.calls["A"].ops
        b == entity.calls["B"].ops
    IN  /\ Len(server.ops) = Len(a) + Len(b)
        /\ server.opVersion = Len(a) + Len(b)
        /\ \A i \in 1..Len(a) : Occurrences(a[i]) >= 1
        /\ \A i \in 1..Len(b) : Occurrences(b[i]) >= 1
        /\ server.elements = workerApplyOpsToElements(server.ops, <<>>)

\* both calls have succeeded with a batch each, one of them at its second
\* attempt
C26_Witness ==
  /\ BothDone
  /\ Len(entity.calls["A"].ops) > 0
  /\ Len(entity.calls["B"].ops) > 0
  /\ entity.calls["A"].ops # entity.calls["B"].ops
  /\ entity.calls["B"].attempt = 1
  /\ entity.presence = 0

-----------------------------------------------------------------------------
(* Properties of the path simplification, under SpecPath *)

\* seq is sub with some entries left out, the order kept
RECURSIVE IsSubsequence(_, _)
IsSubsequence(sub, seq) ==
  IF Len(sub) = 0 THEN TRUE
  ELSE IF Len(seq) = 0 THEN FALSE
  ELSE IF sub[1] = seq[1] THEN IsSubsequence(Tail(sub), Tail(seq))
  ELSE IsSubsequence(sub, Tail(seq))

\* C31: simplifyPoints preserves the endpoints and never lengthens the
\* path: for a path of one point or more and a tolerance of 0 or more, the
\* output starts and ends with the first and the last input point, is a
\* subsequence of the input, and is no longer than the input.
C31_SimplifyKeepsEnds ==
  hist.call = "simplify" =>
    /\ Len(hist.post) >= 1
    /\ hist.post[1] = hist.pre[1]
    /\ hist.post[Len(hist.post)] = hist.pre[Len(hist.pre)]
    /\ IsSubsequence(hist.post, hist.pre)
    /\ Len(hist.post) <= Len(hist.pre)

\* a path of four points or more was cut down to three: one split, and
\* points dropped on a side of it
C31_Witness ==
  /\ hist.call = "simplify"
  /\ Len(hist.pre) >= 4
  /\ Len(hist.post) = 3

\* C32: simplification is idempotent: simplifying the output of
\* simplifyPoints again with the same tolerance yields the same points.
C32_SimplifyIdempotent == hist.call = "resimplify" => hist.post = hist.pre

\* the output simplified again kept a split point and had lost points of
\* the path it came from
C32_Witness ==
  /\ hist.call = "resimplify"
  /\ Len(hist.pre) >= 3
  /\ Len(hist.drag) > Len(hist.pre)

-----------------------------------------------------------------------------
(* Properties of the alignment guides, under SpecGuides *)

\* how many entries of seq satisfy Test
CountOf(seq, Test(_)) == Cardinality({i \in 1..Len(seq) : Test(seq[i])})

\* the vertical guides at x among the guides of one pair
VerticalAt(guides, x) ==
  LET test(g) == g.type = "vertical" /\ g.start.x = x
  IN  CountOf(guides, test)

\* C33: alignment symmetry: for a preview box A and any other element B,
\* of any width, whose left edge is less than 5 pixels from A's left edge,
\* getAlignmentGuides produces exactly one vertical guide at x = B's left
\* edge for that pair.
C33_OneGuidePerLeftEdge ==
  hist.call = "guides" =>
    \A i \in 1..Len(rendered.elements) :
       LET el == rendered.elements[i]
           preview == hist.pre[1]
       IN  (el.id # preview.id /\ Abs(preview.x - el.x) < GuideThreshold)
             => VerticalAt(guidesOfPair(el, preview), el.x) = 1

-----------------------------------------------------------------------------
(* Properties of the release, under SpecSwitch *)

\* C34: a pointer-up dispatches an `add` only when the machine is in
\* Drawing at that moment: a release arriving in Idle, Panning, Dragging,
\* Resizing, Rotating or Erasing dispatches no `add`, also when the active
\* tool was switched to a shape tool during the gesture.
C34_AddOnlyFromDrawing ==
  [][(hist'.call = "pointerUp" /\ canvas.captured /\ canvas.action.type # "drawing")
       => \A i \in Appended : opHistory'[i].type # "add"]_vars

-----------------------------------------------------------------------------
(* Properties of the log at its cap, under SpecCap *)

\* a dispatch from a log at the cap: the oldest entry is shifted out
EvictingDispatch == DispatchStep /\ historyIndex >= UNDO_LIMIT

\* C35: a dispatch that evicts the oldest log entry changes the projected
\* element list only by the effect of the dispatched operation: every
\* element visible before the dispatch and not targeted by the new
\* operation is still visible, unchanged, after it.
C35_EvictionKeepsElements ==
  [][EvictingDispatch =>
       LET op == opHistory'[Len(opHistory')]
       IN  \A i \in 1..Len(hist'.pre) :
              hist'.pre[i].id # op.elementId
                => \E j \in 1..Len(hist'.post) : hist'.post[j] = hist'.pre[i]]_vars

-----------------------------------------------------------------------------
(* Properties of the merge, under Spec *)

\* the operations the projection replays: those before the cursor
AppliedIds(log, cursor) == OpIds(Slice(log, 0, cursor))

\* C36: merging remote operations does not change which local operations
\* are applied: the operations that were undone (beyond the cursor) before
\* a merge are still not replayed into the element list after it.
C36_MergeKeepsUndone ==
  [][PollMergeStep =>
       (OpIds(opHistory) \ AppliedIds(opHistory, historyIndex))
         \cap AppliedIds(opHistory', historyIndex') = {}]_vars

-----------------------------------------------------------------------------
(* Properties of the client among other clients, under Spec: the other     *)
(* clients are the appends that reach the store from elsewhere.            *)

\* no push and no poll is under way, every local operation has been pushed
\* and acknowledged, and the client has polled up to the store's version
Settled ==
  /\ rendered.currentDrawingId # NoDoc
  /\ save = NoCall
  /\ poll = NoCall
  /\ unacked = {}
  /\ Len(pendingOps(rendered)) = 0
  /\ drawing.opVersion >= server.opVersion

\* C37: with several clients pushing and polling the same document, a
\* client's log holds every operation id at most once, and once all pushes
\* and polls have completed with no further edit it holds every operation
\* the store has accepted.
C37_LogConverges ==
  /\ \A i, j \in 1..Len(opHistory) : opHistory[i].id = opHistory[j].id => i = j
  /\ Settled => OpIds(server.ops) \subseteq OpIds(opHistory)

-----------------------------------------------------------------------------
(* Properties of the store's cache, under SpecProj *)

\* an `add` carries a whole element, a `reorder` a list of elements
WellFormed(op) ==
  CASE op.type = "add" -> op.data \in {ObjData(e) : e \in {Rect("1", 0), Rect("1", 5), TextEl("3")}}
    [] OTHER -> op.data \notin Malformed

\* C38: the store's cached element list agrees with the client projector:
\* after any sequence of appendOps calls from an empty document, the stored
\* elements equal the client's applyOpsToElements of the stored ops in
\* stored order, for sequences of add, update, delete and reorder.
C38_CacheIsProjection ==
  (\A i \in 1..Len(server.ops) : WellFormed(server.ops[i]))
    => server.elements = applyOpsToElements(server.ops, <<>>)

-----------------------------------------------------------------------------
(* Properties of the selection, under SpecGone *)

\* C39: in every reachable state the selection refers only to existing
\* elements: every id in selectedIds is the id of an element of the
\* current projected list, after any sequence of select, undo and load.
C39_SelectionExists ==
  \A i \in 1..Len(selectedIds) : FindIndex(Projection, selectedIds[i]) # 0

=============================================================================
